---- MODULE Spec2Model ----
(***************************************************************************)
(* Receipt OCR system: the text-cleaning pipeline of ReceiptPreprocessor   *)
(* (src/src/preprocessing.py) and the line classifier / field extractor    *)
(* of ReceiptParser (src/src/receipt_parser.py).                           *)
(*                                                                         *)
(* A text is a sequence of one-character strings.  Monetary amounts are    *)
(* integers in hundredths (float("3.00") is 300), which is exact for the   *)
(* two-decimal tokens the price pattern accepts.                           *)
(***************************************************************************)
EXTENDS Integers, Sequences, FiniteSets, TLC

VARIABLES
    pc,            \* position of the running call
    raw_text,      \* argument of _clean_and_reconstruct_text
    text,          \* its local "text", rewritten stage by stage
    cleaned_text,  \* argument of parse_receipt
    lines,         \* parse_receipt: the stripped, non-empty lines
    i,             \* parse_receipt: index of the current line, from 0
    receipt,       \* parse_receipt: the ReceiptData being filled
    san_in,        \* argument of a first _clean_lines call
    san_once,      \* its result, argument of a second call
    san_twice,     \* result of the second call
    metrics,       \* result of _analyze_text_quality
    ocr_simple,    \* what the OCR engine did on the default pass
    ocr_basic,     \* what the OCR engine did on the fallback pass
    invocations,   \* engine calls made so far, per configuration
    ocr_method,    \* tag returned by _extract_text_multi_method
    call,          \* concurrent calls on one instance: their local state
    heap           \* the list objects the calls' ReceiptData refer to

vars == <<pc, raw_text, text, cleaned_text, lines, i, receipt,
          san_in, san_once, san_twice, metrics,
          ocr_simple, ocr_basic, invocations, ocr_method, call, heap>>

ocr_vars == <<ocr_simple, ocr_basic, invocations, ocr_method>>
call_vars == <<call, heap>>

(***************************************************************************)
(* Bounds of the checked instances.                                        *)
(***************************************************************************)
MaxLines == 2
MaxRawLines == 4
MaxSanLen == 4

(***************************************************************************)
(* Character classes of Python's re module, restricted to the characters   *)
(* receipts are made of.                                                   *)
(***************************************************************************)
UpperSeq == <<"A","B","C","D","E","F","G","H","I","J","K","L","M",
              "N","O","P","Q","R","S","T","U","V","W","X","Y","Z">>
LowerSeq == <<"a","b","c","d","e","f","g","h","i","j","k","l","m",
              "n","o","p","q","r","s","t","u","v","w","x","y","z">>
DigitSeq == <<"0","1","2","3","4","5","6","7","8","9">>

Upper == {UpperSeq[k] : k \in 1..26}
Lower == {LowerSeq[k] : k \in 1..26}
Digit == {DigitSeq[k] : k \in 1..10}
Letter == Upper \cup Lower
Space == {" ", "\n", "\t", "\r"}
Currency == {"£", "$", "€"}
Punct == {",", ".", "-", "+", "*", ":", "/", "(", ")", "%", "#"}
AnyChar == Letter \cup Digit \cup Space \cup Currency \cup Punct
NotNewline == AnyChar \ {"\n"}

\* str.lower() on one character
LowerMap == [c \in Upper |-> LowerSeq[CHOOSE k \in 1..26 : UpperSeq[k] = c]]
lower_char(c) == IF c \in Upper THEN LowerMap[c] ELSE c

\* int() of one digit character
DigitMap == [c \in Digit |-> (CHOOSE k \in 1..10 : DigitSeq[k] = c) - 1]

(***************************************************************************)
(* Python str methods.                                                     *)
(***************************************************************************)
lower(s) == [k \in 1..Len(s) |-> lower_char(s[k])]

Slice(s, a, b) == IF a > b THEN <<>> ELSE SubSeq(s, a, b)

RECURSIVE lstrip(_)
lstrip(s) == IF s # <<>> /\ Head(s) \in Space THEN lstrip(Tail(s)) ELSE s

RECURSIVE rstrip(_)
rstrip(s) ==
    IF s # <<>> /\ s[Len(s)] \in Space THEN rstrip(Slice(s, 1, Len(s) - 1)) ELSE s

strip(s) == rstrip(lstrip(s))

\* sub occurs in s at position p
OccursAt(s, sub, p) ==
    /\ p >= 1
    /\ p + Len(sub) - 1 <= Len(s)
    /\ \A k \in 1..Len(sub) : s[p + k - 1] = sub[k]

\* the "in" operator on strings
Contains(s, sub) == \E p \in 1..(Len(s) - Len(sub) + 1) : OccursAt(s, sub, p)

startswith(s, sub) == OccursAt(s, sub, 1)

\* str.find, 0 when absent, positions from 1
Find(s, sub) ==
    IF Contains(s, sub)
    THEN CHOOSE p \in 1..(Len(s) - Len(sub) + 1) :
            /\ OccursAt(s, sub, p)
            /\ \A q \in 1..(p - 1) : ~OccursAt(s, sub, q)
    ELSE 0

\* str.replace(old, new) for a non-empty old: leftmost, non-overlapping
RECURSIVE replace(_, _, _)
replace(s, old, new) ==
    LET p == Find(s, old)
    IN IF p = 0 THEN s
       ELSE Slice(s, 1, p - 1) \o new \o
            replace(Slice(s, p + Len(old), Len(s)), old, new)

\* s.split(sep)[0]
SplitHead(s, sep) ==
    LET p == Find(s, sep) IN IF p = 0 THEN s ELSE Slice(s, 1, p - 1)

\* s.split('\n')
RECURSIVE split_lines(_)
split_lines(s) ==
    LET p == Find(s, <<"\n">>)
    IN IF p = 0 THEN <<s>>
       ELSE <<Slice(s, 1, p - 1)>> \o split_lines(Slice(s, p + 1, Len(s)))

\* '\n'.join(ls)
RECURSIVE join_lines(_)
join_lines(ls) ==
    IF ls = <<>> THEN <<>>
    ELSE IF Len(ls) = 1 THEN ls[1]
    ELSE ls[1] \o <<"\n">> \o join_lines(Tail(ls))

(***************************************************************************)
(* Regular expressions as the re module matches them.  A pattern is a      *)
(* sequence of atoms; an "eat" atom consumes between lo and hi characters  *)
(* of a class (hi = -1: unbounded), greedily and with backtracking; an     *)
(* "ahead" atom is a lookahead (?=[cls]) (with eol: or the end of the      *)
(* text), a "nahead" atom is (?![cls]).  For substitution each atom says   *)
(* whether its span is kept and which text is inserted before it.          *)
(***************************************************************************)
Atom(cls, lo, hi, keep, ins) ==
    [kind |-> "eat", cls |-> cls, lo |-> lo, hi |-> hi, keep |-> keep,
     ins |-> ins, eol |-> FALSE]
Keep(cls, lo, hi) == Atom(cls, lo, hi, TRUE, <<>>)
Drop(cls, lo, hi) == Atom(cls, lo, hi, FALSE, <<>>)
Ahead(cls, eol) ==
    [kind |-> "ahead", cls |-> cls, lo |-> 0, hi |-> 0, keep |-> TRUE,
     ins |-> <<>>, eol |-> eol]
NotAhead(cls) ==
    [kind |-> "nahead", cls |-> cls, lo |-> 0, hi |-> 0, keep |-> TRUE,
     ins |-> <<>>, eol |-> FALSE]
\* a literal string, kept
Lit(str) == [k \in 1..Len(str) |-> Keep({str[k]}, 1, 1)]

NoMatch == [ok |-> FALSE, ends |-> <<>>]

\* length of the longest run of cls characters at pos, at most hi
RECURSIVE Run(_, _, _, _)
Run(s, pos, cls, hi) ==
    IF pos <= Len(s) /\ s[pos] \in cls /\ hi # 0
    THEN 1 + Run(s, pos + 1, cls, hi - 1)
    ELSE 0

\* match atoms k.. of pat at pos; ends[j] is the position after atom k+j-1
RECURSIVE MatchAtoms(_, _, _, _)
RECURSIVE TryCount(_, _, _, _, _)
MatchAtoms(pat, k, s, pos) ==
    IF k > Len(pat) THEN [ok |-> TRUE, ends |-> <<>>]
    ELSE IF pat[k].kind = "eat"
         THEN TryCount(pat, k, s, pos, Run(s, pos, pat[k].cls, pat[k].hi))
    ELSE LET hit == \/ (pos <= Len(s) /\ s[pos] \in pat[k].cls)
                    \/ (pat[k].eol /\ pos > Len(s))
             rest == MatchAtoms(pat, k + 1, s, pos)
         IN IF (pat[k].kind = "ahead") = hit /\ rest.ok
            THEN [ok |-> TRUE, ends |-> <<pos>> \o rest.ends]
            ELSE NoMatch

TryCount(pat, k, s, pos, n) ==
    IF n < pat[k].lo THEN NoMatch
    ELSE LET rest == MatchAtoms(pat, k + 1, s, pos + n)
         IN IF rest.ok
            THEN [ok |-> TRUE, ends |-> <<pos + n>> \o rest.ends]
            ELSE TryCount(pat, k, s, pos, n - 1)

\* pattern.match(s): a match at the start of s
re_match(pat, s) == MatchAtoms(pat, 1, s, 1)

\* pattern.search(s): the leftmost match, start = 0 when there is none
RECURSIVE SearchFrom(_, _, _)
SearchFrom(pat, s, pos) ==
    IF pos > Len(s) + 1 THEN [ok |-> FALSE, start |-> 0, ends |-> <<>>]
    ELSE LET m == MatchAtoms(pat, 1, s, pos)
         IN IF m.ok THEN [ok |-> TRUE, start |-> pos, ends |-> m.ends]
            ELSE SearchFrom(pat, s, pos + 1)

re_search(pat, s) == SearchFrom(pat, s, 1)

\* match.group(0) of a search result
Group0(s, m) == Slice(s, m.start, m.ends[Len(m.ends)] - 1)

\* the replacement text of one match: per atom, its insert and kept span
RECURSIVE Expand(_, _, _, _, _)
Expand(pat, s, pos, ends, k) ==
    IF k > Len(pat) THEN <<>>
    ELSE pat[k].ins
         \o (IF pat[k].keep
             THEN Slice(s, IF k = 1 THEN pos ELSE ends[k - 1], ends[k] - 1)
             ELSE <<>>)
         \o Expand(pat, s, pos, ends, k + 1)

\* re.sub(pat, repl, s): leftmost, non-overlapping; scanning resumes after
\* the end of each match (no pattern here matches the empty string)
RECURSIVE SubFrom(_, _, _)
SubFrom(pat, s, pos) ==
    IF pos > Len(s) THEN <<>>
    ELSE LET m == MatchAtoms(pat, 1, s, pos)
         IN IF m.ok /\ m.ends[Len(pat)] > pos
            THEN Expand(pat, s, pos, m.ends, 1)
                 \o SubFrom(pat, s, m.ends[Len(pat)])
            ELSE <<s[pos]>> \o SubFrom(pat, s, pos + 1)

re_sub(pat, s) == SubFrom(pat, s, 1)

(***************************************************************************)
(* ReceiptParser: patterns and vocabularies set by __init__.               *)
(***************************************************************************)
\* r'[£$€]?(\d+\.\d{2})'
price_pattern ==
    <<Keep(Currency, 0, 1), Keep(Digit, 1, -1), Keep({"."}, 1, 1),
      Keep(Digit, 2, 2)>>

\* r'(\d+)x\s*(.+)' with re.IGNORECASE
quantity_pattern ==
    <<Keep(Digit, 1, -1), Keep({"x", "X"}, 1, 1), Keep(Space, 0, -1),
      Keep(NotNewline, 1, -1)>>

discount_keywords ==
    <<  <<"d","i","s","c","o","u","n","t">>,
        <<"o","v","e","r","r","i","d","e">>,
        <<"r","e","d","u","c","t","i","o","n">>,
        <<"o","f","f">>,
        <<"s","a","v","e">>  >>

payment_methods ==
    <<  <<"c","a","s","h">>,
        <<"c","a","r","d">>,
        <<"c","r","e","d","i","t">>,
        <<"d","e","b","i","t">>,
        <<"c","o","n","t","a","c","t","l","e","s","s">>,
        <<"c","h","i","p">>,
        <<"p","i","n">>  >>

skip_keywords ==
    <<  <<"t","o","t","a","l">>,
        <<"d","i","s","c","o","u","n","t">>,
        <<"c","h","a","n","g","e">>,
        <<"c","a","s","h">>,
        <<"c","a","r","d">>,
        <<"r","e","c","e","i","p","t">>,
        <<"t","h","a","n","k">>,
        <<"a","d","m","i","n">>,
        <<"m","a","n","a","g","e","r">>  >>

kw_total == <<"t","o","t","a","l">>
kw_sub == <<"s","u","b">>
kw_discount == <<"d","i","s","c","o","u","n","t">>
kw_change == <<"c","h","a","n","g","e">>

\* any(keyword in line for keyword in kws)
AnyIn(kws, line) == \E k \in 1..Len(kws) : Contains(line, kws[k])

\* int() of a digit string
RECURSIVE ParseInt(_)
ParseInt(ds) ==
    IF ds = <<>> THEN 0
    ELSE 10 * ParseInt(Slice(ds, 1, Len(ds) - 1)) + DigitMap[ds[Len(ds)]]

\* float(match.group(1)) of a price match, in hundredths
PriceValue(s, m) ==
    100 * ParseInt(Slice(s, m.ends[1], m.ends[2] - 1))
    + ParseInt(Slice(s, m.ends[3], m.ends[4] - 1))

_contains_price(line) == re_search(price_pattern, line).ok

NoPrice == [some |-> FALSE, value |-> 0]

\* Optional[float]: some = FALSE is None
_extract_price(line) ==
    LET m == re_search(price_pattern, line)
    IN IF m.ok
       THEN LET price == PriceValue(line, m)
            IN [some |-> TRUE,
                value |-> IF "-" \in {SplitHead(line, Group0(line, m))[k] :
                                       k \in 1..Len(SplitHead(line, Group0(line, m)))}
                          THEN 0 - price ELSE price]
       ELSE NoPrice

\* truthiness of an Optional[float]: None and 0.0 are false
Truthy(p) == p.some /\ p.value # 0

\* "p or 0.0"
OrZero(p) == IF Truthy(p) THEN p.value ELSE 0

Abs(n) == IF n < 0 THEN 0 - n ELSE n

_is_item_line(line) ==
    LET line_lower == lower(line)
        has_price == _contains_price(line)
        has_text == Len(strip(replace(replace(replace(line, <<"£">>, <<>>),
                                              <<"$">>, <<>>), <<"€">>, <<>>))) > 3
        has_quantity == re_match(quantity_pattern, line).ok
        price_at_end == strip(line) # <<>>
                        /\ strip(line)[Len(strip(line))] \in {"0", "5"}
    IN IF AnyIn(skip_keywords, line_lower) THEN FALSE
       ELSE has_price /\ has_text /\ (has_quantity \/ price_at_end)

\* the discount test without "and self._contains_price(line)"
_is_discount_line_NoPrice(line) == AnyIn(discount_keywords, lower(line))

_is_discount_line(line) ==
    AnyIn(discount_keywords, lower(line)) /\ _contains_price(line)

_is_subtotal_line(line) ==
    /\ Contains(lower(line), kw_sub)
    /\ Contains(lower(line), kw_total)
    /\ _contains_price(line)

_is_total_discount_line(line) ==
    /\ Contains(lower(line), kw_discount)
    /\ Contains(lower(line), kw_total)
    /\ _contains_price(line)

_is_final_total_line(line) ==
    /\ startswith(lower(line), kw_total)
    /\ _contains_price(line)
    /\ ~Contains(lower(line), kw_sub)
    /\ ~Contains(lower(line), kw_discount)

_is_payment_line(line) ==
    AnyIn(payment_methods, lower(line)) /\ _contains_price(line)

_is_change_line(line) ==
    Contains(lower(line), kw_change) /\ _contains_price(line)

\* next((m for m in payment_methods if m in line_lower), "unknown")
FirstMethod(line_lower) ==
    IF AnyIn(payment_methods, line_lower)
    THEN payment_methods[CHOOSE k \in 1..Len(payment_methods) :
            /\ Contains(line_lower, payment_methods[k])
            /\ \A j \in 1..(k - 1) : ~Contains(line_lower, payment_methods[j])]
    ELSE <<"u","n","k","n","o","w","n">>

NoPayment == [some |-> FALSE, method |-> <<>>, amount |-> 0]

_parse_payment_line(line) ==
    LET amount == _extract_price(line)
    IN IF Truthy(amount)
       THEN [some |-> TRUE, method |-> FirstMethod(lower(line)),
             amount |-> amount.value]
       ELSE NoPayment

\* r'^[\d\s\*\-]+' removed
name_lead_pattern == <<Drop(Digit \cup Space \cup {"*", "-"}, 1, -1)>>
StripLead(name) ==
    LET m == re_match(name_lead_pattern, name)
    IN IF m.ok THEN Slice(name, m.ends[1], Len(name)) ELSE name

\* r'\s+' -> ' '
spaces_pattern == <<Atom(Space, 1, -1, FALSE, <<" ">>)>>

NoItem ==
    [some |-> FALSE, name |-> <<>>, quantity |-> 1,
     unit_price |-> [num |-> 0, den |-> 1], total_price |-> 0,
     discount |-> 0, final_price |-> 0]

\* Optional[ReceiptItem]; unit_price is the quotient num / den
_parse_item_line(line) ==
    LET qty_match == re_match(quantity_pattern, strip(line))
        quantity == IF qty_match.ok
                    THEN ParseInt(Slice(strip(line), 1, qty_match.ends[1] - 1))
                    ELSE 1
        remainder == IF qty_match.ok
                     THEN strip(Slice(strip(line), qty_match.ends[3],
                                      qty_match.ends[4] - 1))
                     ELSE strip(line)
        price == _extract_price(remainder)
        price_str == Group0(remainder, re_search(price_pattern, remainder))
        name == re_sub(spaces_pattern,
                    strip(StripLead(strip(replace(remainder, price_str, <<>>)))))
    IN IF ~Truthy(price) THEN NoItem
       ELSE IF name = <<>> THEN NoItem
       ELSE [some |-> TRUE, name |-> name, quantity |-> quantity,
             unit_price |-> IF quantity > 0
                            THEN [num |-> price.value, den |-> quantity]
                            ELSE [num |-> price.value, den |-> 1],
             total_price |-> price.value, discount |-> 0,
             final_price |-> price.value]

(***************************************************************************)
(* parse_receipt as a state machine: one action per branch of the loop     *)
(* body.                                                                   *)
(***************************************************************************)
\* ReceiptData()
NewReceipt ==
    [items |-> <<>>, subtotal |-> 0, total_discount |-> 0, final_total |-> 0,
     payment_method |-> <<>>, amount_paid |-> 0, change_given |-> 0]

\* values of the state of the components a call does not use
NoMetrics ==
    [text_length |-> 0, lines_count |-> 0, money_amounts |-> 0,
     dates_found |-> 0, quality_score |-> 0]
NotCalled == [called |-> FALSE, raised |-> FALSE, text |-> <<>>]
NoInvocations == [simple |-> 0, basic |-> 0]

QualityIdle == metrics = NoMetrics
OcrIdle ==
    /\ ocr_simple = NotCalled
    /\ ocr_basic = NotCalled
    /\ invocations = NoInvocations
    /\ ocr_method = ""
CallsIdle ==
    /\ call = <<>>
    /\ heap = <<>>
TextIdle ==
    /\ raw_text = <<>>
    /\ text = <<>>
    /\ cleaned_text = <<>>
    /\ lines = <<>>
    /\ i = 0
    /\ receipt = NewReceipt
SanitizeIdle ==
    /\ san_in = <<>>
    /\ san_once = <<>>
    /\ san_twice = <<>>

\* the ReceiptItem held by a successful _parse_item_line result
ItemOf(r) ==
    [name |-> r.name, quantity |-> r.quantity, unit_price |-> r.unit_price,
     total_price |-> r.total_price, discount |-> r.discount,
     final_price |-> r.final_price]

\* [line.strip() for line in cleaned_text.split('\n') if line.strip()]
StrippedLines(t) ==
    LET all == split_lines(t)
        F[k \in 0..Len(all)] ==
            IF k = 0 THEN <<>>
            ELSE IF strip(all[k]) # <<>> THEN Append(F[k - 1], strip(all[k]))
            ELSE F[k - 1]
    IN F[Len(all)]

\* "if not self._contains_price(line) and i < 3"
IsHeaderSkip(line, idx) == ~_contains_price(line) /\ idx < 3

\* Branch with the payment test moved in front of the item test
Branch_PaymentFirst(line) ==
    IF _is_payment_line(line) THEN "payment"
    ELSE IF _is_item_line(line) THEN "item"
    ELSE IF _is_subtotal_line(line) THEN "subtotal"
    ELSE IF _is_total_discount_line(line) THEN "total_discount"
    ELSE IF _is_final_total_line(line) THEN "final_total"
    ELSE IF _is_change_line(line) THEN "change"
    ELSE "none"

\* the if / elif chain of the loop body: the branch taken for a line
Branch(line) ==
    IF _is_item_line(line) THEN "item"
    ELSE IF _is_subtotal_line(line) THEN "subtotal"
    ELSE IF _is_total_discount_line(line) THEN "total_discount"
    ELSE IF _is_final_total_line(line) THEN "final_total"
    ELSE IF _is_payment_line(line) THEN "payment"
    ELSE IF _is_change_line(line) THEN "change"
    ELSE "none"

\* "if i + 1 < len(lines) and self._is_discount_line(lines[i + 1])"
HasLookahead(ls, idx) == idx + 1 < Len(ls) /\ _is_discount_line(ls[idx + 2])

\* LinkedItem that stores the signed amount of the discount line
LinkedItem_Signed(item, ls, idx) ==
    IF HasLookahead(ls, idx)
    THEN LET discount_amount == _extract_price(ls[idx + 2])
         IN IF Truthy(discount_amount)
            THEN [item EXCEPT !.discount = discount_amount.value,
                              !.final_price = item.total_price
                                              - Abs(discount_amount.value)]
            ELSE item
    ELSE [item EXCEPT !.final_price = item.total_price]

\* the item of the current line after the discount lookahead
LinkedItem(item, ls, idx) ==
    IF HasLookahead(ls, idx)
    THEN LET discount_amount == _extract_price(ls[idx + 2])
         IN IF Truthy(discount_amount)
            THEN [item EXCEPT !.discount = Abs(discount_amount.value),
                              !.final_price = item.total_price
                                              - Abs(discount_amount.value)]
            ELSE item
    ELSE [item EXCEPT !.final_price = item.total_price]

\* ItemBranch that leaves the lookahead line to be examined again
ItemBranch_NoSkip(r, ls, idx) ==
    LET item == _parse_item_line(ls[idx + 1])
    IN IF item.some
       THEN [receipt |-> [r EXCEPT !.items =
                            Append(@, LinkedItem(ItemOf(item), ls, idx))],
             i |-> idx + 1]
       ELSE [receipt |-> r, i |-> idx + 1]

\* the branch "if self._is_item_line(line)"
ItemBranch(r, ls, idx) ==
    LET item == _parse_item_line(ls[idx + 1])
    IN IF item.some
       THEN [receipt |-> [r EXCEPT !.items =
                            Append(@, LinkedItem(ItemOf(item), ls, idx))],
             i |-> IF HasLookahead(ls, idx) THEN idx + 2 ELSE idx + 1]
       ELSE [receipt |-> r, i |-> idx + 1]

\* the branch "elif self._is_payment_line(line)"
PaymentBranch(r, line) ==
    LET payment_info == _parse_payment_line(line)
    IN IF payment_info.some
       THEN [r EXCEPT !.payment_method = payment_info.method,
                      !.amount_paid = payment_info.amount]
       ELSE r

\* LoopBody that forgets "i += 1" for a line matching no predicate
LoopBody_NoAdvance(r, ls, idx) ==
    LET line == ls[idx + 1]
        b == Branch(line)
    IN IF IsHeaderSkip(line, idx) THEN [receipt |-> r, i |-> idx + 1]
       ELSE IF b = "item" THEN ItemBranch(r, ls, idx)
       ELSE IF b = "none" THEN [receipt |-> r, i |-> idx]
       ELSE [receipt |->
                CASE b = "subtotal" ->
                        [r EXCEPT !.subtotal = OrZero(_extract_price(line))]
                  [] b = "total_discount" ->
                        [r EXCEPT !.total_discount =
                                    Abs(OrZero(_extract_price(line)))]
                  [] b = "final_total" ->
                        [r EXCEPT !.final_total = OrZero(_extract_price(line))]
                  [] b = "payment" -> PaymentBranch(r, line)
                  [] OTHER ->
                        [r EXCEPT !.change_given = OrZero(_extract_price(line))],
             i |-> idx + 1]

\* one iteration of "while i < len(lines)": the record and index after it
LoopBody(r, ls, idx) ==
    LET line == ls[idx + 1]
        b == Branch(line)
    IN IF IsHeaderSkip(line, idx) THEN [receipt |-> r, i |-> idx + 1]
       ELSE IF b = "item" THEN ItemBranch(r, ls, idx)
       ELSE [receipt |->
                CASE b = "subtotal" ->
                        [r EXCEPT !.subtotal = OrZero(_extract_price(line))]
                  [] b = "total_discount" ->
                        [r EXCEPT !.total_discount =
                                    Abs(OrZero(_extract_price(line)))]
                  [] b = "final_total" ->
                        [r EXCEPT !.final_total = OrZero(_extract_price(line))]
                  [] b = "payment" -> PaymentBranch(r, line)
                  [] b = "change" ->
                        [r EXCEPT !.change_given = OrZero(_extract_price(line))]
                  [] OTHER -> r,
             i |-> idx + 1]

\* parse_receipt is entered: lines, receipt and i are set up
ParseStart ==
    /\ pc = "parse"
    /\ lines' = StrippedLines(cleaned_text)
    /\ receipt' = NewReceipt
    /\ i' = 0
    /\ pc' = "loop"
    /\ UNCHANGED <<metrics, ocr_vars, call_vars>>
    /\ UNCHANGED <<raw_text, text, cleaned_text, san_in, san_once, san_twice>>

\* "while i < len(lines)" holds: the loop body is entered
LoopTest ==
    /\ pc = "loop"
    /\ i < Len(lines)
    /\ pc' = "body"
    /\ UNCHANGED <<metrics, ocr_vars, call_vars>>
    /\ UNCHANGED <<raw_text, text, cleaned_text, lines, i, receipt,
                   san_in, san_once, san_twice>>

\* the loop body, back to the loop test
ParseLine ==
    /\ pc = "body"
    /\ LET after == LoopBody(receipt, lines, i)
       IN /\ receipt' = after.receipt
          /\ i' = after.i
    /\ pc' = "loop"
    /\ UNCHANGED <<metrics, ocr_vars, call_vars>>
    /\ UNCHANGED <<raw_text, text, cleaned_text, lines,
                   san_in, san_once, san_twice>>

\* "while i < len(lines)" fails: return receipt
ParseReturn ==
    /\ pc = "loop"
    /\ i >= Len(lines)
    /\ pc' = "done"
    /\ UNCHANGED <<metrics, ocr_vars, call_vars>>
    /\ UNCHANGED <<raw_text, text, cleaned_text, lines, i, receipt,
                   san_in, san_once, san_twice>>

(***************************************************************************)
(* Cleaned texts handed to parse_receipt: up to MaxLines lines of a        *)
(* vocabulary of receipt lines.                                            *)
(***************************************************************************)
ParserVocab ==
    { <<"2","x"," ","M","i","l","k"," ","3",".","0","0">>,
      <<"D","i","s","c","o","u","n","t"," ","-","0",".","5","0">>,
      <<"S","u","b"," ","T","o","t","a","l"," ","1","0",".","0","0">>,
      <<"T","o","t","a","l"," ","3",".","0","0">>,
      <<"C","a","s","h"," ","5",".","0","0">>,
      <<"C","h","a","n","g","e"," ","2",".","0","0">>,
      <<"T","o","t","a","l"," ","D","i","s","c","o","u","n","t"," ","0",".","7","5">>,
      <<"C","a","r","d"," ","0",".","0","0">>,
      <<"0","x"," ","T","e","a"," ","1",".","0","0">>,
      <<"S","t","o","r","e">>,
      <<"P","i","n","e","a","p","p","l","e"," ","2",".","5","0">>,
      <<"S","u","b"," ","T","o","t","a","l"," ","o","f","f"," ","1",".","2","5">>,
      <<"S","a","v","e"," ","0",".","0","0">> }

ParserInputs ==
    { join_lines(ls) : ls \in UNION { [1..n -> ParserVocab] : n \in 0..MaxLines } }

Init ==
    /\ pc = "parse"
    /\ cleaned_text \in ParserInputs
    /\ raw_text = <<>>
    /\ text = <<>>
    /\ lines = <<>>
    /\ i = 0
    /\ receipt = NewReceipt
    /\ san_in = <<>>
    /\ san_once = <<>>
    /\ san_twice = <<>>
    /\ QualityIdle /\ OcrIdle /\ CallsIdle

Next == ParseStart \/ LoopTest \/ ParseLine \/ ParseReturn

Spec == Init /\ [][Next]_vars

(***************************************************************************)
(* parse_receipt on item lines: names with hyphens, a discount keyword     *)
(* inside a name, a zero amount, a negative amount, a missing name.        *)
(***************************************************************************)
ItemVocab ==
    { <<"M","i","l","k"," ","1",".","0","0">>,
      <<"C","o","f","f","e","e"," ","2",".","5","0">>,
      <<"S","e","m","i","-","s","k","i","m","m","e","d"," ",
        "M","i","l","k"," ","1",".","5","0">>,
      <<"S","u","b","-","T","o","t","a","l"," ","1","0",".","0","0">>,
      <<"T","e","a"," ","0",".","0","0">>,
      <<"R","e","f","u","n","d"," ","-","2",".","0","0">>,
      <<"2","x"," ","3",".","0","0">>,
      <<"S","t","o","r","e">> }

ItemInputs == { join_lines(ls) : ls \in UNION { [1..n -> ItemVocab] : n \in 0..MaxLines } }

InitItems ==
    /\ pc = "parse"
    /\ cleaned_text \in ItemInputs
    /\ raw_text = <<>>
    /\ text = <<>>
    /\ lines = <<>>
    /\ i = 0
    /\ receipt = NewReceipt
    /\ SanitizeIdle /\ QualityIdle /\ OcrIdle /\ CallsIdle

SpecItems == InitItems /\ [][Next]_vars

(***************************************************************************)
(* parse_receipt on texts long enough to leave the header region (index    *)
(* 3 and beyond), with lines that carry the keywords of every class but no *)
(* amount.                                                                 *)
(***************************************************************************)
MaxFrameLines == 4

FrameVocab ==
    { <<"M","i","l","k"," ","1",".","0","0">>,
      <<"S","u","b"," ","T","o","t","a","l"," ","D","i","s","c","o","u","n","t">>,
      <<"2","x"," ","C","a","s","h"," ","C","h","a","n","g","e">>,
      <<"T","o","t","a","l"," ","3",".","0">>,
      <<"S","u","b"," ","T","o","t","a","l"," ","9",".","0","0">> }

FrameInputs ==
    { join_lines(ls) : ls \in UNION { [1..n -> FrameVocab] : n \in 0..MaxFrameLines } }

InitFrame ==
    /\ pc = "parse"
    /\ cleaned_text \in FrameInputs
    /\ raw_text = <<>>
    /\ text = <<>>
    /\ lines = <<>>
    /\ i = 0
    /\ receipt = NewReceipt
    /\ SanitizeIdle /\ QualityIdle /\ OcrIdle /\ CallsIdle

SpecFrame == InitFrame /\ [][Next]_vars

(***************************************************************************)
(* ReceiptPreprocessor: the stages of _clean_and_reconstruct_text.  Each   *)
(* re.sub is a pattern that carries its replacement.                       *)
(***************************************************************************)
\* r'-£-(\d)' -> r'-£\1'
double_minus_pattern ==
    <<Keep({"-"}, 1, 1), Keep({"£"}, 1, 1), Drop({"-"}, 1, 1), Keep(Digit, 1, 1)>>

_fix_minimal_errors(t) ==
    re_sub(double_minus_pattern,
           replace(replace(t, <<"-","£","0",",","5","0">>,
                              <<"-","£","0",".","5","0">>),
                   <<"£","0",",","5","0">>, <<"£","0",".","5","0">>))

\* r'(\d)[Oo](\d)' -> r'\g<1>0\g<2>'
digit_O_pattern ==
    <<Keep(Digit, 1, 1), Atom({"O", "o"}, 1, 1, FALSE, <<"0">>), Keep(Digit, 1, 1)>>
\* r'(\d)[Il](\d)' -> r'\g<1>1\g<2>'
digit_I_pattern ==
    <<Keep(Digit, 1, 1), Atom({"I", "l"}, 1, 1, FALSE, <<"1">>), Keep(Digit, 1, 1)>>
\* r'([£$€])[Oo](\d)' -> r'\g<1>0\g<2>'
currency_O_pattern ==
    <<Keep(Currency, 1, 1), Atom({"O", "o"}, 1, 1, FALSE, <<"0">>),
      Keep(Digit, 1, 1)>>
\* r'([£$€])[Il](\d)' -> r'\g<1>1\g<2>'
currency_I_pattern ==
    <<Keep(Currency, 1, 1), Atom({"I", "l"}, 1, 1, FALSE, <<"1">>),
      Keep(Digit, 1, 1)>>
\* r'([£$€])(\d+),(\d{2})(?!\d)' -> r'\1\2.\3'
currency_comma_pattern ==
    <<Keep(Currency, 1, 1), Keep(Digit, 1, -1),
      Atom({","}, 1, 1, FALSE, <<".">>), Keep(Digit, 2, 2), NotAhead(Digit)>>
\* r'(\d+),(\d{2})(?=\s|$)' -> r'\1.\2'
bare_comma_pattern ==
    <<Keep(Digit, 1, -1), Atom({","}, 1, 1, FALSE, <<".">>), Keep(Digit, 2, 2),
      Ahead(Space, TRUE)>>

_fix_character_errors(t) ==
    re_sub(bare_comma_pattern,
      re_sub(currency_comma_pattern,
        re_sub(currency_I_pattern,
          re_sub(currency_O_pattern,
            re_sub(digit_I_pattern,
              re_sub(digit_O_pattern, t))))))

Vowel == {"a", "e", "i", "o", "u", "A", "E", "I", "O", "U"}
Consonant == Letter \ Vowel
ArtifactPunct == {",", ".", "-", "+", "*"}

\* r'(\d\.\d{2})\s+[a-zA-Z]\s+([A-Z][a-zA-Z]+)' -> r'\1\n\2'
price_glyph_pattern ==
    <<Keep(Digit, 1, 1), Keep({"."}, 1, 1), Keep(Digit, 2, 2),
      Atom(Space, 1, -1, FALSE, <<"\n">>), Drop(Letter, 1, 1),
      Drop(Space, 1, -1), Keep(Upper, 1, 1), Keep(Letter, 1, -1)>>
\* r'\s+[bcdfghjklmnpqrstvwxyzBCDFGHJKLMNPQRSTVWXYZ]\s+(?=[A-Z])' -> r' '
lone_consonant_pattern ==
    <<Atom(Space, 1, -1, FALSE, <<" ">>), Drop(Consonant, 1, 1),
      Drop(Space, 1, -1), Ahead(Upper, FALSE)>>
\* r'\s*[,\.\-\+\*]{2,}\s*' -> ' ', with {1,} in place of {2,}
punct_run_pattern_OneOrMore ==
    <<Atom(Space, 0, -1, FALSE, <<" ">>), Drop(ArtifactPunct, 1, -1),
      Drop(Space, 0, -1)>>
\* r'\s*[,\.\-\+\*]{2,}\s*' -> ' '
punct_run_pattern ==
    <<Atom(Space, 0, -1, FALSE, <<" ">>), Drop(ArtifactPunct, 2, -1),
      Drop(Space, 0, -1)>>

_remove_artifact_characters(t) ==
    re_sub(punct_run_pattern,
      re_sub(lone_consonant_pattern,
        re_sub(price_glyph_pattern, t)))

\* r'([a-z])(\s*KW)' -> r'\1\n\2' for a keyword KW
BreakBeforeWord(kw) ==
    <<Keep(Lower, 1, 1), Atom(Space, 0, -1, TRUE, <<"\n">>)>> \o Lit(kw)

\* the (pattern, replacement) list of _reconstruct_line_breaks, in order
break_patterns ==
    <<  BreakBeforeWord(<<"R","E","C","E","I","P","T">>),
        BreakBeforeWord(<<"S","A","L","E","S">>),
        BreakBeforeWord(<<"T","H","A","N","K">>),
        \* r'([a-z])(\s*\d+x\s*[A-Z])'
        <<Keep(Lower, 1, 1), Atom(Space, 0, -1, TRUE, <<"\n">>),
          Keep(Digit, 1, -1), Keep({"x"}, 1, 1), Keep(Space, 0, -1),
          Keep(Upper, 1, 1)>>,
        \* r'([£$€]\d+\.\d{2})(\s+[A-Z])'
        <<Keep(Currency, 1, 1), Keep(Digit, 1, -1), Keep({"."}, 1, 1),
          Keep(Digit, 2, 2), Atom(Space, 1, -1, TRUE, <<"\n">>),
          Keep(Upper, 1, 1)>>,
        \* r'(\d+\.\d{2})(\s+[A-Z][a-zA-Z])'
        <<Keep(Digit, 1, -1), Keep({"."}, 1, 1), Keep(Digit, 2, 2),
          Atom(Space, 1, -1, TRUE, <<"\n">>), Keep(Upper, 1, 1),
          Keep(Letter, 1, 1)>>,
        \* r'([a-z])(\s*\d{1,2}/\d{1,2}/\d)'
        <<Keep(Lower, 1, 1), Atom(Space, 0, -1, TRUE, <<"\n">>),
          Keep(Digit, 1, 2), Keep({"/"}, 1, 1), Keep(Digit, 1, 2),
          Keep({"/"}, 1, 1), Keep(Digit, 1, 1)>>,
        \* r'([a-z])(\s*\d{1,2}-\d{1,2}-\d)'
        <<Keep(Lower, 1, 1), Atom(Space, 0, -1, TRUE, <<"\n">>),
          Keep(Digit, 1, 2), Keep({"-"}, 1, 1), Keep(Digit, 1, 2),
          Keep({"-"}, 1, 1), Keep(Digit, 1, 1)>>,
        \* r'([a-z])(\s*\d{1,2}:\d{2})'
        <<Keep(Lower, 1, 1), Atom(Space, 0, -1, TRUE, <<"\n">>),
          Keep(Digit, 1, 2), Keep({":"}, 1, 1), Keep(Digit, 2, 2)>>  >>

\* "for pattern, replacement in patterns: text = re.sub(...)" from pattern k
RECURSIVE ApplyPatterns(_, _, _)
ApplyPatterns(pats, k, t) ==
    IF k > Len(pats) THEN t ELSE ApplyPatterns(pats, k + 1, re_sub(pats[k], t))

_reconstruct_line_breaks(t) == ApplyPatterns(break_patterns, 1, t)

\* r'([a-z])([A-Z][a-z]{2,})' -> r'\1 \2'
lower_capital_pattern ==
    <<Keep(Lower, 1, 1), Atom(Upper, 1, 1, TRUE, <<" ">>), Keep(Lower, 2, -1)>>
\* r'(\d)([A-Z][a-z]{2,})' -> r'\1 \2'
digit_capital_pattern ==
    <<Keep(Digit, 1, 1), Atom(Upper, 1, 1, TRUE, <<" ">>), Keep(Lower, 2, -1)>>
\* r'([a-zA-Z]):([A-Z])' -> r'\1: \2'
colon_pattern ==
    <<Keep(Letter, 1, 1), Keep({":"}, 1, 1), Atom(Upper, 1, 1, TRUE, <<" ">>)>>

\* re.match(r'^[,\.\-\+\*\s]+$', line) on a stripped, non-empty line
PunctOnly(line) == \A k \in 1..Len(line) : line[k] \in ArtifactPunct \cup Space

\* the stripped line is kept: none of the three "continue" tests holds
KeptLine(line) ==
    /\ line # <<>>
    /\ ~PunctOnly(line)
    /\ ~(Len(line) = 1 /\ line \notin {<<"A">>, <<"I">>})

\* the four substitutions on a kept line
CleanLine(line) ==
    re_sub(colon_pattern,
      re_sub(digit_capital_pattern,
        re_sub(lower_capital_pattern,
          re_sub(spaces_pattern, line))))

_clean_lines(t) ==
    LET all == split_lines(t)
        F[k \in 0..Len(all)] ==
            IF k = 0 THEN <<>>
            ELSE IF KeptLine(strip(all[k]))
                 THEN Append(F[k - 1], CleanLine(strip(all[k])))
            ELSE F[k - 1]
    IN join_lines(F[Len(all)])

(***************************************************************************)
(* _clean_and_reconstruct_text as a state machine, one action per stage;   *)
(* its result is handed to parse_receipt (process_receipt_complete).       *)
(***************************************************************************)
\* "if not raw_text: return raw_text"
CleanEmpty ==
    /\ pc = "clean"
    /\ raw_text = <<>>
    /\ cleaned_text' = raw_text
    /\ pc' = "parse"
    /\ UNCHANGED <<metrics, ocr_vars, call_vars>>
    /\ UNCHANGED <<raw_text, text, lines, i, receipt, san_in, san_once, san_twice>>

FixMinimal ==
    /\ pc = "clean"
    /\ raw_text # <<>>
    /\ text' = _fix_minimal_errors(raw_text)
    /\ pc' = "chars"
    /\ UNCHANGED <<metrics, ocr_vars, call_vars>>
    /\ UNCHANGED <<raw_text, cleaned_text, lines, i, receipt,
                   san_in, san_once, san_twice>>

FixChars ==
    /\ pc = "chars"
    /\ text' = _fix_character_errors(text)
    /\ pc' = "artifacts"
    /\ UNCHANGED <<metrics, ocr_vars, call_vars>>
    /\ UNCHANGED <<raw_text, cleaned_text, lines, i, receipt,
                   san_in, san_once, san_twice>>

RemoveArtifacts ==
    /\ pc = "artifacts"
    /\ text' = _remove_artifact_characters(text)
    /\ pc' = "breaks"
    /\ UNCHANGED <<metrics, ocr_vars, call_vars>>
    /\ UNCHANGED <<raw_text, cleaned_text, lines, i, receipt,
                   san_in, san_once, san_twice>>

ReconstructBreaks ==
    /\ pc = "breaks"
    /\ text' = _reconstruct_line_breaks(text)
    /\ pc' = "sanitize"
    /\ UNCHANGED <<metrics, ocr_vars, call_vars>>
    /\ UNCHANGED <<raw_text, cleaned_text, lines, i, receipt,
                   san_in, san_once, san_twice>>

\* the last stage; "return text"
CleanLines ==
    /\ pc = "sanitize"
    /\ text' = _clean_lines(text)
    /\ cleaned_text' = _clean_lines(text)
    /\ pc' = "parse"
    /\ UNCHANGED <<metrics, ocr_vars, call_vars>>
    /\ UNCHANGED <<raw_text, lines, i, receipt, san_in, san_once, san_twice>>

\* a raw OCR receipt, line by line
RawReceipt ==
    <<  <<"2","x","M","i","l","k","3",".","0","0">>,
        <<"T","o","t","a","l","3",".","0","0">>,
        <<"C","a","s","h","5",".","0","0">>,
        <<"C","h","a","n","g","e","2",".","0","0">>,
        <<"T","e","a"," ","2",",","5","0">>,
        <<"J","a","m"," ","1","O","0","g"," ","1",".","5","0">>,
        <<"E","g","g"," ","1",".","0","0"," ","B","u","n"," ","2",".","0","0">>,
        <<"D","i","s","c","o","u","n","t"," ","-","£","-","0",".","5","0">>  >>

\* the lines of RawReceipt at the positions S, in order
LinesAt(S) ==
    LET F[k \in 0..Len(RawReceipt)] ==
            IF k = 0 THEN <<>>
            ELSE IF k \in S THEN Append(F[k - 1], RawReceipt[k])
            ELSE F[k - 1]
    IN F[Len(RawReceipt)]

\* raw texts: every selection of at most MaxRawLines lines of RawReceipt
RawInputs ==
    { join_lines(LinesAt(S)) :
        S \in {T \in SUBSET (1..Len(RawReceipt)) : Cardinality(T) <= MaxRawLines} }

InitPipeline ==
    /\ pc = "clean"
    /\ raw_text \in RawInputs
    /\ text = <<>>
    /\ cleaned_text = <<>>
    /\ lines = <<>>
    /\ i = 0
    /\ receipt = NewReceipt
    /\ san_in = <<>>
    /\ san_once = <<>>
    /\ san_twice = <<>>
    /\ QualityIdle /\ OcrIdle /\ CallsIdle

NextPipeline ==
    \/ CleanEmpty \/ FixMinimal \/ FixChars \/ RemoveArtifacts
    \/ ReconstructBreaks \/ CleanLines
    \/ ParseStart \/ LoopTest \/ ParseLine \/ ParseReturn

SpecPipeline == InitPipeline /\ [][NextPipeline]_vars

(***************************************************************************)
(* The first two stages on texts of digits and the letters OCR confuses    *)
(* with them.                                                              *)
(***************************************************************************)
MaxFixLen == 5

FixAlphabet == {"1", "O", "l", "a"}

FixInputs == UNION { [1..n -> FixAlphabet] : n \in 1..MaxFixLen }

InitChars ==
    /\ pc = "clean"
    /\ raw_text \in FixInputs
    /\ text = <<>>
    /\ cleaned_text = <<>>
    /\ lines = <<>>
    /\ i = 0
    /\ receipt = NewReceipt
    /\ SanitizeIdle /\ QualityIdle /\ OcrIdle /\ CallsIdle

NextChars == FixMinimal \/ FixChars

SpecChars == InitChars /\ [][NextChars]_vars

(***************************************************************************)
(* Two successive calls of _clean_lines, the second on the result of the   *)
(* first.                                                                  *)
(***************************************************************************)
SanitizeOnce ==
    /\ pc = "sanitize_1"
    /\ san_once' = _clean_lines(san_in)
    /\ pc' = "sanitize_2"
    /\ UNCHANGED <<metrics, ocr_vars, call_vars>>
    /\ UNCHANGED <<raw_text, text, cleaned_text, lines, i, receipt,
                   san_in, san_twice>>

SanitizeTwice ==
    /\ pc = "sanitize_2"
    /\ san_twice' = _clean_lines(san_once)
    /\ pc' = "sanitized"
    /\ UNCHANGED <<metrics, ocr_vars, call_vars>>
    /\ UNCHANGED <<raw_text, text, cleaned_text, lines, i, receipt,
                   san_in, san_once>>

SanAlphabet == {"a", "A", "B", ":", " ", "\n"}

\* the texts named by the idempotence property
CaseSites == <<"a","B","c","d","D","e","f","g">>
ColonSites == <<"A",":","B",":","C">>

\* every text over SanAlphabet of at most MaxSanLen characters, and the two
\* named texts
SanInputs ==
    UNION { [1..n -> SanAlphabet] : n \in 0..MaxSanLen }
    \cup {CaseSites, ColonSites}

InitSanitize ==
    /\ pc = "sanitize_1"
    /\ san_in \in SanInputs
    /\ san_once = <<>>
    /\ san_twice = <<>>
    /\ raw_text = <<>>
    /\ text = <<>>
    /\ cleaned_text = <<>>
    /\ lines = <<>>
    /\ i = 0
    /\ receipt = NewReceipt
    /\ QualityIdle /\ OcrIdle /\ CallsIdle

NextSanitize == SanitizeOnce \/ SanitizeTwice

SpecSanitize == InitSanitize /\ [][NextSanitize]_vars

(***************************************************************************)
(* _analyze_text_quality.  The score is kept in units of 1/QualityUnit,    *)
(* in which every term of the weighted sum is an integer.                  *)
(***************************************************************************)
MaxQualityLines == 4
QualityUnit == 5000

\* new action conjunct shared by the actions below: everything a text
\* measurement leaves alone
text_vars == <<raw_text, text, cleaned_text, lines, i, receipt,
               san_in, san_once, san_twice>>

\* r'[£$€]?\d+\.\d{2}'
money_pattern ==
    <<Keep(Currency, 0, 1), Keep(Digit, 1, -1), Keep({"."}, 1, 1),
      Keep(Digit, 2, 2)>>
\* r'\d{1,2}[/-]\d{1,2}[/-]\d{2,4}'
date_pattern ==
    <<Keep(Digit, 1, 2), Keep({"/", "-"}, 1, 1), Keep(Digit, 1, 2),
      Keep({"/", "-"}, 1, 1), Keep(Digit, 2, 4)>>

\* len(re.findall(pat, s)): the non-overlapping matches from pos on
RECURSIVE CountFrom(_, _, _)
CountFrom(pat, s, pos) ==
    IF pos > Len(s) THEN 0
    ELSE LET m == MatchAtoms(pat, 1, s, pos)
         IN IF m.ok /\ m.ends[Len(pat)] > pos
            THEN 1 + CountFrom(pat, s, m.ends[Len(pat)])
            ELSE CountFrom(pat, s, pos + 1)

findall_count(pat, s) == CountFrom(pat, s, 1)

Min(a, b) == IF a <= b THEN a ELSE b

\* [line for line in text.split('\n') if line.strip()]
NonBlankLines(t) == SelectSeq(split_lines(t), LAMBDA l : strip(l) # <<>>)

\* money*0.3 + dates*0.2 + min(lines/10, 1)*0.3 + min(len/500, 1)*0.2
WeightedSum(money, dates, nlines, length) ==
    ((3 * QualityUnit) \div 10) * money
    + ((2 * QualityUnit) \div 10) * dates
    + ((3 * QualityUnit) \div 100) * Min(nlines, 10)
    + ((2 * QualityUnit) \div 5000) * Min(length, 500)

\* the function without the outer min(..., 1.0)
_analyze_text_quality_Unclamped(t) ==
    IF t = <<>> THEN NoMetrics
    ELSE LET money == findall_count(money_pattern, t)
             dates == findall_count(date_pattern, t)
             nlines == Len(NonBlankLines(t))
         IN [text_length |-> Len(t), lines_count |-> nlines,
             money_amounts |-> money, dates_found |-> dates,
             quality_score |-> WeightedSum(money, dates, nlines, Len(t))]

_analyze_text_quality(t) ==
    IF t = <<>> THEN NoMetrics
    ELSE LET money == findall_count(money_pattern, t)
             dates == findall_count(date_pattern, t)
             nlines == Len(NonBlankLines(t))
         IN [text_length |-> Len(t), lines_count |-> nlines,
             money_amounts |-> money, dates_found |-> dates,
             quality_score |->
                 Min(WeightedSum(money, dates, nlines, Len(t)), QualityUnit)]

\* "if not text: return {...}"
QualityEmpty ==
    /\ pc = "quality"
    /\ cleaned_text = <<>>
    /\ metrics' = _analyze_text_quality(cleaned_text)
    /\ pc' = "quality_done"
    /\ UNCHANGED <<text_vars, ocr_vars, call_vars>>

QualityMeasure ==
    /\ pc = "quality"
    /\ cleaned_text # <<>>
    /\ metrics' = _analyze_text_quality(cleaned_text)
    /\ pc' = "quality_done"
    /\ UNCHANGED <<text_vars, ocr_vars, call_vars>>

QualityVocab ==
    {   <<"T","o","t","a","l"," ","3",".","0","0">>,
        <<"£","1",".","5","0"," ","2",".","2","5">>,
        <<"1","2","/","0","3","/","2","0","2","4">>,
        <<"S","t","o","r","e">>,
        <<" ">>  }

QualityInputs ==
    { join_lines(ls) :
        ls \in UNION { [1..n -> QualityVocab] : n \in 0..MaxQualityLines } }

InitQuality ==
    /\ pc = "quality"
    /\ cleaned_text \in QualityInputs
    /\ raw_text = <<>>
    /\ text = <<>>
    /\ lines = <<>>
    /\ i = 0
    /\ receipt = NewReceipt
    /\ SanitizeIdle /\ QualityIdle /\ OcrIdle /\ CallsIdle

NextQuality == QualityEmpty \/ QualityMeasure

SpecQuality == InitQuality /\ [][NextQuality]_vars

(***************************************************************************)
(* _extract_text_multi_method.  The OCR engine is outside the program: a   *)
(* pass either raises or returns some text, chosen here from OcrOutcomes.  *)
(***************************************************************************)
MaxOcrLen == 22

\* "len(text) > 20"
OcrThreshold == 20

OcrSample ==
    <<"M","i","l","k"," ","1",".","0","0"," ","T","o","t","a","l"," ",
      "3",".","0","0"," ","C","a","s","h"," ","5",".","0","0">>

\* an engine output of n characters
OcrText(n) == [k \in 1..n |-> OcrSample[((k - 1) % Len(OcrSample)) + 1]]

\* what pytesseract.image_to_string can do: raise, or return a text, with
\* or without surrounding whitespace
OcrOutcomes ==
    {[called |-> TRUE, raised |-> TRUE, text |-> <<>>]}
    \cup {[called |-> TRUE, raised |-> FALSE, text |-> OcrText(n)] :
            n \in 0..MaxOcrLen}
    \cup {[called |-> TRUE, raised |-> FALSE,
           text |-> <<" ">> \o OcrText(n) \o <<"\n">>] : n \in 0..MaxOcrLen}

\* the first try block without its except clause
SimpleResult_NoCatch(o) ==
    IF o.raised THEN [pc |-> "ocr_raised", text |-> <<>>, method |-> ""]
    ELSE IF strip(o.text) # <<>> /\ Len(strip(o.text)) > OcrThreshold
    THEN [pc |-> "ocr_done", text |-> strip(o.text), method |-> "simple"]
    ELSE [pc |-> "ocr_basic", text |-> <<>>, method |-> ""]

\* the first try block: default configuration
SimpleResult(o) ==
    IF o.raised THEN [pc |-> "ocr_basic", text |-> <<>>, method |-> ""]
    ELSE IF strip(o.text) # <<>> /\ Len(strip(o.text)) > OcrThreshold
    THEN [pc |-> "ocr_done", text |-> strip(o.text), method |-> "simple"]
    ELSE [pc |-> "ocr_basic", text |-> <<>>, method |-> ""]

\* the second try block, config 'basic', and the final return "", "none"
BasicResult(o) ==
    IF o.raised THEN [pc |-> "ocr_done", text |-> <<>>, method |-> "none"]
    ELSE IF strip(o.text) # <<>>
    THEN [pc |-> "ocr_done", text |-> strip(o.text), method |-> "fallback"]
    ELSE [pc |-> "ocr_done", text |-> <<>>, method |-> "none"]

SimplePass ==
    /\ pc = "ocr_simple"
    /\ \E o \in OcrOutcomes :
         /\ ocr_simple' = o
         /\ pc' = SimpleResult(o).pc
         /\ raw_text' = SimpleResult(o).text
         /\ ocr_method' = SimpleResult(o).method
    /\ invocations' = [invocations EXCEPT !.simple = @ + 1]
    /\ UNCHANGED <<text, cleaned_text, lines, i, receipt,
                   san_in, san_once, san_twice, metrics, ocr_basic, call_vars>>

BasicPass ==
    /\ pc = "ocr_basic"
    /\ \E o \in OcrOutcomes :
         /\ ocr_basic' = o
         /\ pc' = BasicResult(o).pc
         /\ raw_text' = BasicResult(o).text
         /\ ocr_method' = BasicResult(o).method
    /\ invocations' = [invocations EXCEPT !.basic = @ + 1]
    /\ UNCHANGED <<text, cleaned_text, lines, i, receipt,
                   san_in, san_once, san_twice, metrics, ocr_simple, call_vars>>

InitOcr ==
    /\ pc = "ocr_simple"
    /\ TextIdle /\ SanitizeIdle /\ QualityIdle /\ OcrIdle /\ CallsIdle

NextOcr == SimplePass \/ BasicPass

SpecOcr == InitOcr /\ [][NextOcr]_vars

(***************************************************************************)
(* Two calls in flight on one ReceiptParser and one ReceiptPreprocessor.   *)
(* A call's locals are call[c]; the items list of its ReceiptData is a     *)
(* list object in heap, reached through call[c].ref.  The instances hold   *)
(* only the patterns and keyword lists set by __init__, which no method    *)
(* assigns.                                                                *)
(***************************************************************************)
MaxCallLines == 2

CallIds == {1, 2}

_clean_and_reconstruct_text(t) ==
    IF t = <<>> THEN t
    ELSE _clean_lines(_reconstruct_line_breaks(_remove_artifact_characters(
             _fix_character_errors(_fix_minimal_errors(t)))))

\* stage k of _clean_and_reconstruct_text
Stage(k, t) ==
    CASE k = 1 -> _fix_minimal_errors(t)
      [] k = 2 -> _fix_character_errors(t)
      [] k = 3 -> _remove_artifact_characters(t)
      [] k = 4 -> _reconstruct_line_breaks(t)
      [] k = 5 -> _clean_lines(t)

\* parse_receipt run to its return, from line idx on
RECURSIVE RunLoop(_, _, _)
RunLoop(r, ls, idx) ==
    IF idx >= Len(ls) THEN r
    ELSE RunLoop(LoopBody(r, ls, idx).receipt, ls, LoopBody(r, ls, idx).i)

parse_receipt(t) == RunLoop(NewReceipt, StrippedLines(t), 0)

\* a list object shared by every ReceiptData (a mutable class-level default)
NewItems_Shared(h) ==
    IF h = <<>> THEN [heap |-> <<<<>>>>, ref |-> 1] ELSE [heap |-> h, ref |-> 1]

\* "ReceiptData()": field(default_factory=list) makes a new list object
NewItems(h) == [heap |-> Append(h, <<>>), ref |-> Len(h) + 1]

CallParseStart(c) ==
    /\ call[c].kind = "parse"
    /\ call[c].pc = "start"
    /\ heap' = NewItems(heap).heap
    /\ call' = [call EXCEPT ![c].pc = "loop",
                            ![c].lines = StrippedLines(call[c].arg),
                            ![c].ref = NewItems(heap).ref,
                            ![c].fields = NewReceipt,
                            ![c].i = 0]
    /\ UNCHANGED <<pc, text_vars, metrics, ocr_vars>>

\* one iteration of the loop: the ReceiptData is call[c].fields with the
\* items of its list object
CallParseLine(c) ==
    /\ call[c].kind = "parse"
    /\ call[c].pc = "loop"
    /\ call[c].i < Len(call[c].lines)
    /\ LET r == [call[c].fields EXCEPT !.items = heap[call[c].ref]]
           after == LoopBody(r, call[c].lines, call[c].i)
       IN /\ heap' = [heap EXCEPT ![call[c].ref] = after.receipt.items]
          /\ call' = [call EXCEPT
                        ![c].fields = [after.receipt EXCEPT !.items = <<>>],
                        ![c].i = after.i]
    /\ UNCHANGED <<pc, text_vars, metrics, ocr_vars>>

CallParseReturn(c) ==
    /\ call[c].kind = "parse"
    /\ call[c].pc = "loop"
    /\ call[c].i >= Len(call[c].lines)
    /\ call' = [call EXCEPT ![c].pc = "done"]
    /\ UNCHANGED <<pc, text_vars, metrics, ocr_vars, heap>>

\* "if not raw_text: return raw_text"
CallCleanEmpty(c) ==
    /\ call[c].kind = "clean"
    /\ call[c].pc = "start"
    /\ call[c].arg = <<>>
    /\ call' = [call EXCEPT ![c].pc = "done", ![c].text = call[c].arg]
    /\ UNCHANGED <<pc, text_vars, metrics, ocr_vars, heap>>

\* the next stage on the call's local text
CallCleanStage(c) ==
    /\ call[c].kind = "clean"
    /\ call[c].arg # <<>>
    /\ call[c].pc \in {"start", "stage"}
    /\ call' = [call EXCEPT
                  ![c].text = Stage(call[c].stage + 1,
                                    IF call[c].stage = 0 THEN call[c].arg
                                    ELSE call[c].text),
                  ![c].stage = call[c].stage + 1,
                  ![c].pc = IF call[c].stage + 1 = 5 THEN "done" ELSE "stage"]
    /\ UNCHANGED <<pc, text_vars, metrics, ocr_vars, heap>>

CallVocab ==
    {   <<"2","x"," ","M","i","l","k"," ","3",".","0","0">>,
        <<"D","i","s","c","o","u","n","t"," ","-","0",".","5","0">>  }

\* the calls that can be made: parse_receipt on up to MaxCallLines lines,
\* or _clean_and_reconstruct_text on a raw text
CallRequests ==
    { [kind |-> "parse", arg |-> join_lines(ls)] :
        ls \in UNION { [1..n -> CallVocab] : n \in 0..MaxCallLines } }
    \cup { [kind |-> "clean", arg |-> t] :
             t \in {<<>>, RawReceipt[1], RawReceipt[5]} }

NewCall(q) ==
    [kind |-> q.kind, arg |-> q.arg, pc |-> "start", lines |-> <<>>, i |-> 0,
     ref |-> 0, fields |-> NewReceipt, text |-> <<>>, stage |-> 0]

InitCalls ==
    /\ pc = "calls"
    /\ \E q \in [CallIds -> CallRequests] : call = [c \in CallIds |-> NewCall(q[c])]
    /\ heap = <<>>
    /\ TextIdle /\ SanitizeIdle /\ QualityIdle /\ OcrIdle

NextCalls ==
    \E c \in CallIds :
        \/ CallParseStart(c) \/ CallParseLine(c) \/ CallParseReturn(c)
        \/ CallCleanEmpty(c) \/ CallCleanStage(c)

SpecCalls == InitCalls /\ [][NextCalls]_vars

(***************************************************************************)
(* Properties of parse_receipt.                                            *)
(***************************************************************************)
\* the lines of the discount-linking example
MilkLine == <<"2","x"," ","M","i","l","k"," ","3",".","0","0">>
DiscountLine == <<"D","i","s","c","o","u","n","t"," ","-","0",".","5","0">>

\* the record fields other than items are the same in r and q
SameSummary(r, q) ==
    /\ r.subtotal = q.subtotal
    /\ r.total_discount = q.total_discount
    /\ r.final_total = q.final_total
    /\ r.payment_method = q.payment_method
    /\ r.amount_paid = q.amount_paid
    /\ r.change_given = q.change_given

\* C1: when the current line parses as an item and the next line has a
\* discount keyword and an amount, the item is appended with discount = the
\* absolute value of that amount and final_price = total_price - discount,
\* the next line is skipped (the index advances by 2) and no other field of
\* the record changes; ["2x Milk 3.00", "Discount -0.50"] yields exactly one
\* item with total_price 3.00, discount 0.50 and final_price 2.50.
C1_DiscountLinking ==
    /\ [][(pc = "body" /\ i + 1 < Len(lines)
           /\ _is_item_line(lines[i + 1])
           /\ _parse_item_line(lines[i + 1]).some
           /\ _is_discount_line(lines[i + 2]))
          => LET item == ItemOf(_parse_item_line(lines[i + 1]))
                 amount == _extract_price(lines[i + 2]).value
                 d == IF amount < 0 THEN 0 - amount ELSE amount
             IN /\ receipt'.items =
                      Append(receipt.items,
                             [item EXCEPT !.discount = d,
                                          !.final_price = item.total_price - d])
                /\ i' = i + 2
                /\ SameSummary(receipt', receipt)]_vars
    /\ []((pc = "done" /\ lines = <<MilkLine, DiscountLine>>)
          => /\ Len(receipt.items) = 1
             /\ receipt.items[1].total_price = 300
             /\ receipt.items[1].discount = 50
             /\ receipt.items[1].final_price = 250)

\* C1 witness: the example has been parsed, its discount line consumed
C1_Witness ==
    /\ pc = "done"
    /\ lines = <<MilkLine, DiscountLine>>
    /\ i = 2
    /\ Len(receipt.items) = 1
    /\ receipt.items[1].discount = 50

\* the field groups of the record that differ between r and q
ChangedGroups(r, q) ==
    {g \in {"item", "subtotal", "total_discount", "final_total", "payment",
            "change"} :
        \/ (g = "item" /\ r.items # q.items)
        \/ (g = "subtotal" /\ r.subtotal # q.subtotal)
        \/ (g = "total_discount" /\ r.total_discount # q.total_discount)
        \/ (g = "final_total" /\ r.final_total # q.final_total)
        \/ (g = "payment" /\ (r.payment_method # q.payment_method
                              \/ r.amount_paid # q.amount_paid))
        \/ (g = "change" /\ r.change_given # q.change_given)}

\* the predicates a line satisfies, in priority order 1..6
Satisfies(line, k) ==
    CASE k = 1 -> _is_item_line(line)
      [] k = 2 -> _is_subtotal_line(line)
      [] k = 3 -> _is_total_discount_line(line)
      [] k = 4 -> _is_final_total_line(line)
      [] k = 5 -> _is_payment_line(line)
      [] k = 6 -> _is_change_line(line)

GroupOf(k) ==
    <<"item", "subtotal", "total_discount", "final_total", "payment",
      "change">>[k]

\* the group of the first predicate a line satisfies, "none" if there is none
FirstGroup(line) ==
    IF \E k \in 1..6 : Satisfies(line, k)
    THEN GroupOf(CHOOSE k \in 1..6 :
            Satisfies(line, k) /\ \A j \in 1..(k - 1) : ~Satisfies(line, j))
    ELSE "none"

\* C2: every iteration of the main loop modifies at most one field group of
\* the record, and only the group of the first predicate (item, subtotal,
\* total-discount, final-total, payment, change) the current line satisfies;
\* a line that is both an item line and a payment line leaves payment_method
\* and amount_paid unchanged.
C2_FirstMatchWins ==
    [][(pc = "body")
       => /\ ChangedGroups(receipt', receipt) \subseteq {FirstGroup(lines[i + 1])}
          /\ (_is_item_line(lines[i + 1]) /\ _is_payment_line(lines[i + 1]))
             => /\ receipt'.payment_method = receipt.payment_method
                /\ receipt'.amount_paid = receipt.amount_paid]_vars

\* C2 witness: a line that is both an item line and a payment line has
\* been examined and became an item only
C2_Witness ==
    /\ pc = "loop"
    /\ i = 1
    /\ _is_item_line(lines[1]) /\ _is_payment_line(lines[1])
    /\ Len(receipt.items) = 1
    /\ receipt.payment_method = <<>>

\* the last position of ls whose line is of group g, 0 if there is none
LastOf(ls, g) ==
    IF \E k \in 1..Len(ls) : FirstGroup(ls[k]) = g
    THEN CHOOSE k \in 1..Len(ls) :
            /\ FirstGroup(ls[k]) = g
            /\ \A j \in (k + 1)..Len(ls) : FirstGroup(ls[j]) # g
    ELSE 0

\* the amount a line carries, 0 for a line without amount
AmountOf(line) == _extract_price(line).value

\* C3: every line with "sub", "total" and an amount that the loop passes
\* over, at any position, sets subtotal to its amount and leaves final_total
\* unchanged.
C3_SubTotalIsSubtotal ==
    [][(pc = "body")
       => \A k \in (i + 1)..i' :
            _is_subtotal_line(lines[k])
            => /\ receipt'.subtotal = AmountOf(lines[k])
               /\ receipt'.final_total = receipt.final_total]_vars

\* C4: after parse_receipt, subtotal, total_discount, final_total and
\* change_given each equal the amount of the last line of their class, and
\* 0 when the input has no line of that class.
C4_LastSummaryLineWins ==
    pc = "done"
    => /\ receipt.subtotal =
            IF LastOf(lines, "subtotal") = 0 THEN 0
            ELSE AmountOf(lines[LastOf(lines, "subtotal")])
       /\ receipt.total_discount =
            IF LastOf(lines, "total_discount") = 0 THEN 0
            ELSE Abs(AmountOf(lines[LastOf(lines, "total_discount")]))
       /\ receipt.final_total =
            IF LastOf(lines, "final_total") = 0 THEN 0
            ELSE AmountOf(lines[LastOf(lines, "final_total")])
       /\ receipt.change_given =
            IF LastOf(lines, "change") = 0 THEN 0
            ELSE AmountOf(lines[LastOf(lines, "change")])

\* C5: after parse_receipt, payment_method and amount_paid are the method
\* and the amount of the last payment line, whatever its amount is.
C5_LastPaymentWins ==
    (pc = "done" /\ LastOf(lines, "payment") # 0)
    => /\ receipt.payment_method =
            FirstMethod(lower(lines[LastOf(lines, "payment")]))
       /\ receipt.amount_paid = AmountOf(lines[LastOf(lines, "payment")])

\* C6: every item of the record has discount >= 0 and
\* final_price = total_price - discount (so final_price = total_price when
\* discount = 0), with or without a discount line after it.
C6_ItemPriceInvariant ==
    \A k \in 1..Len(receipt.items) :
        /\ receipt.items[k].discount >= 0
        /\ receipt.items[k].final_price =
              receipt.items[k].total_price - receipt.items[k].discount

\* C6 witness: an item whose discount line carried 0.00 and was consumed,
\* after an input whose first item got a non-zero discount is also reachable
C6_Witness ==
    /\ pc = "done"
    /\ Len(lines) = 2
    /\ Len(receipt.items) = 1
    /\ _is_discount_line(lines[2])
    /\ AmountOf(lines[2]) = 0
    /\ receipt.items[1].discount = 0
    /\ receipt.items[1].final_price = receipt.items[1].total_price

\* C7: every item of the record has a quantity of at least 1.
C7_QuantityAtLeastOne ==
    \A k \in 1..Len(receipt.items) : receipt.items[k].quantity >= 1

ScenarioRaw == join_lines(LinesAt({1, 2, 3, 4}))

\* C9: cleaning and then parsing the four raw lines "2xMilk3.00",
\* "Total3.00", "Cash5.00", "Change2.00" yields exactly one item (name
\* "Milk", quantity 2, total_price 3.00), final_total 3.00, payment_method
\* "cash", amount_paid 5.00 and change_given 2.00.
C9_EndToEndScenario ==
    (pc = "done" /\ raw_text = ScenarioRaw)
    => /\ Len(receipt.items) = 1
       /\ receipt.items[1].name = <<"M","i","l","k">>
       /\ receipt.items[1].quantity = 2
       /\ receipt.items[1].total_price = 300
       /\ receipt.final_total = 300
       /\ receipt.payment_method = <<"c","a","s","h">>
       /\ receipt.amount_paid = 500
       /\ receipt.change_given = 200

\* C9 witness: the scenario text has been cleaned and parsed to the end
C9_Witness ==
    /\ pc = "done"
    /\ raw_text = ScenarioRaw
    /\ Len(lines) = 4
    /\ i = 4
    /\ Len(receipt.items) = 1

\* C10: _clean_lines is idempotent: cleaning a cleaned text changes nothing.
C10_SanitizeIdempotent ==
    pc = "sanitized" => san_twice = san_once

\* the lines of a text; the empty text has none
LinesOf(t) == IF t = <<>> THEN <<>> ELSE split_lines(t)

\* C11: every line of the text _clean_lines returns is non-empty after
\* trimming and has at least 2 characters: a single-character line is
\* dropped whatever the character.
C11_NoShortLine ==
    pc = "sanitize_2"
    => \A k \in 1..Len(LinesOf(san_once)) :
          /\ strip(LinesOf(san_once)[k]) # <<>>
          /\ Len(LinesOf(san_once)[k]) >= 2

\* C12: the quality score lies in [0, 1] and is
\* min(1, 0.3*money_amounts + 0.2*dates + 0.3*min(lines/10, 1)
\* + 0.2*min(length/500, 1)) with non-negative counts; for the empty text the
\* score and every count are 0.
C12_QualityScoreBounds ==
    pc = "quality_done"
    => /\ metrics.quality_score >= 0
       /\ metrics.quality_score <= QualityUnit
       /\ metrics.money_amounts >= 0
       /\ metrics.dates_found >= 0
       /\ metrics.lines_count >= 0
       /\ metrics.text_length = Len(cleaned_text)
       /\ 10 * metrics.quality_score
            = Min(10 * QualityUnit,
                  3 * QualityUnit * metrics.money_amounts
                  + 2 * QualityUnit * metrics.dates_found
                  + (3 * QualityUnit * Min(metrics.lines_count, 10)) \div 10
                  + (2 * QualityUnit * Min(metrics.text_length, 500)) \div 500)
       /\ cleaned_text = <<>>
            => /\ metrics.quality_score = 0
               /\ metrics.text_length = 0
               /\ metrics.lines_count = 0
               /\ metrics.money_amounts = 0
               /\ metrics.dates_found = 0

\* C12 witness: a measured text whose weighted sum exceeds 1 and is clamped
C12_Witness ==
    /\ pc = "quality_done"
    /\ metrics.money_amounts >= 3
    /\ metrics.dates_found >= 1
    /\ metrics.quality_score = QualityUnit

\* the text a pass produced (after .strip()), empty if it raised or was
\* not made
Produced(o) == IF o.called /\ ~o.raised THEN strip(o.text) ELSE <<>>

\* a text passes the length threshold
PassesThreshold(t) == Len(t) > OcrThreshold

\* C13: the default configuration is tried first and the fallback second;
\* the text returned is that of the first configuration whose result passes
\* the length threshold, tagged with that configuration; the fallback is not
\* invoked when the default result passes, and a result that does not pass
\* the threshold is never returned.
C13_FirstPassingResult ==
    /\ ocr_basic.called => ocr_simple.called
    /\ pc = "ocr_done"
       => /\ PassesThreshold(Produced(ocr_simple))
              => /\ raw_text = Produced(ocr_simple)
                 /\ ocr_method = "simple"
                 /\ ~ocr_basic.called
          /\ (~PassesThreshold(Produced(ocr_simple))
               /\ PassesThreshold(Produced(ocr_basic)))
              => /\ raw_text = Produced(ocr_basic)
                 /\ ocr_method = "fallback"
          /\ raw_text # <<>> => PassesThreshold(raw_text)

\* C14: an engine failure never leaves _extract_text_multi_method: after a
\* failed default pass the fallback is tried exactly once; if the fallback
\* raises or yields no text the result is the empty text tagged "none"; each
\* configuration is invoked at most once.
C14_EngineFailureContained ==
    /\ pc # "ocr_raised"
    /\ invocations.simple <= 1
    /\ invocations.basic <= 1
    /\ pc = "ocr_done"
       => /\ ocr_simple.raised => invocations.basic = 1
          /\ (ocr_basic.called /\ Produced(ocr_basic) = <<>>)
              => /\ raw_text = <<>>
                 /\ ocr_method = "none"

\* C14 witness: both passes raised and the call returned
C14_Witness ==
    /\ pc = "ocr_done"
    /\ ocr_simple.raised
    /\ ocr_basic.raised
    /\ invocations = [simple |-> 1, basic |-> 1]
    /\ raw_text = <<>>
    /\ ocr_method = "none"

\* C20: the empty text (tag "none") is returned only when neither pass
\* produced a non-empty text; a non-empty result of the default pass is not
\* lost.
C20_EmptyOnlyIfNothingProduced ==
    (pc = "ocr_done" /\ (raw_text = <<>> \/ ocr_method = "none"))
    => /\ Produced(ocr_simple) = <<>>
       /\ Produced(ocr_basic) = <<>>

\* what call c returns: the ReceiptData with the items of its list object,
\* or the cleaned text
CallResult(c) ==
    IF call[c].kind = "parse"
    THEN [call[c].fields EXCEPT !.items = heap[call[c].ref]]
    ELSE call[c].text

\* C15: with calls interleaved on one instance, the result of each call is
\* a function of its own argument, and a result that has been returned,
\* items list included, is not modified by the other call.
C15_CallsIndependent ==
    /\ [](\A c \in CallIds :
            call[c].pc = "done"
            => CallResult(c) = IF call[c].kind = "parse"
                               THEN parse_receipt(call[c].arg)
                               ELSE _clean_and_reconstruct_text(call[c].arg))
    /\ [][\A c \in CallIds :
            call[c].pc = "done" => CallResult(c)' = CallResult(c)]_vars

\* C15 witness: two parse calls have both returned an item, the second call
\* having started first
C15_Witness ==
    /\ pc = "calls"
    /\ \A c \in CallIds :
          /\ call[c].kind = "parse"
          /\ call[c].pc = "done"
          /\ Len(CallResult(c).items) = 1
    /\ call[2].ref < call[1].ref
    /\ CallResult(1).items[1].discount > 0
    /\ CallResult(2).items[1].discount = 0

\* the part of the line left of its first amount token
LeftOfAmount(line) ==
    Slice(line, 1, re_search(price_pattern, line).start - 1)

\* position p of t holds a "-" that is not inside a word: no letter or
\* digit before it and no letter after it
StandaloneMinus(t, p) ==
    /\ t[p] = "-"
    /\ p = 1 \/ t[p - 1] \notin Letter \cup Digit
    /\ p = Len(t) \/ t[p + 1] \notin Letter

\* C16: _extract_price returns a negative amount exactly when the first
\* amount token of the line has a standalone "-" to its left; a hyphen inside
\* a word left of the amount does not make the amount negative.
C16_NegativeOnlyStandaloneMinus ==
    pc = "loop"
    => \A k \in 1..Len(lines) :
          _contains_price(lines[k])
          => (_extract_price(lines[k]).value < 0
              <=> \E p \in 1..Len(LeftOfAmount(lines[k])) :
                     StandaloneMinus(LeftOfAmount(lines[k]), p))

\* the remainder of an item line: the text after its quantity prefix, or
\* the whole line
RemainderOf(line) ==
    LET q == re_match(quantity_pattern, strip(line))
    IN IF q.ok THEN strip(Slice(strip(line), q.ends[3], q.ends[4] - 1))
       ELSE strip(line)

\* the cleaned name of an item line whose remainder holds an amount
CleanedNameOf(line) ==
    LET rem == RemainderOf(line)
        price_str == Group0(rem, re_search(price_pattern, rem))
    IN re_sub(spaces_pattern,
              strip(StripLead(strip(replace(rem, price_str, <<>>)))))

\* C17: a line classified as an item line is discarded only if its
\* remainder holds no amount or its cleaned name is empty; with an amount,
\* 0.00 included, and a non-empty name it is added to the record.
C17_ItemDiscardedOnlyIfIncomplete ==
    [][(/\ pc = "body"
        /\ _is_item_line(lines[i + 1])
        /\ _contains_price(RemainderOf(lines[i + 1]))
        /\ CleanedNameOf(lines[i + 1]) # <<>>)
       => /\ Len(receipt'.items) = Len(receipt.items) + 1
          /\ receipt'.items[Len(receipt'.items)].name
               = CleanedNameOf(lines[i + 1])]_vars

\* the lines that are item lines and parse to an item
RECURSIVE ParsedItemNames(_)
ParsedItemNames(ls) ==
    IF ls = <<>> THEN <<>>
    ELSE (IF _is_item_line(Head(ls)) /\ _parse_item_line(Head(ls)).some
          THEN <<_parse_item_line(Head(ls)).name>> ELSE <<>>)
         \o ParsedItemNames(Tail(ls))

\* C19: every line that satisfies the item-line predicate and parses to a
\* name and an amount contributes exactly one entry to items, in document
\* order; it is never absorbed as the discount of the item line before it.
C19_EveryItemLineCounted ==
    pc = "done"
    => [k \in 1..Len(receipt.items) |-> receipt.items[k].name]
         = ParsedItemNames(lines)

\* position p of t lies between two digits
BetweenDigits(t, p) ==
    /\ 1 < p
    /\ p < Len(t)
    /\ t[p - 1] \in Digit
    /\ t[p + 1] \in Digit

\* C18: _fix_character_errors replaces every O/o between two digits by 0
\* and every I/l between two digits by 1, also when occurrences share a
\* digit; "1O1" becomes "101"; a text without a digit is unchanged.
C18_EveryMisreadCorrected ==
    [][(pc = "chars")
       => /\ Len(text') = Len(text)
          /\ \A p \in 1..Len(text) :
                /\ (text[p] \in {"O", "o"} /\ BetweenDigits(text, p))
                     => text'[p] = "0"
                /\ (text[p] \in {"I", "l"} /\ BetweenDigits(text, p))
                     => text'[p] = "1"
          /\ (\A p \in 1..Len(text) : text[p] \notin Digit) => text' = text]_vars

\* the loop body without the header skip of its first lines
LoopBodyNoSkip(r, ls, idx) ==
    LET line == ls[idx + 1]
        b == Branch(line)
    IN IF b = "item" THEN ItemBranch(r, ls, idx)
       ELSE [receipt |->
                CASE b = "subtotal" ->
                        [r EXCEPT !.subtotal = OrZero(_extract_price(line))]
                  [] b = "total_discount" ->
                        [r EXCEPT !.total_discount =
                                    Abs(OrZero(_extract_price(line)))]
                  [] b = "final_total" ->
                        [r EXCEPT !.final_total = OrZero(_extract_price(line))]
                  [] b = "payment" -> PaymentBranch(r, line)
                  [] b = "change" ->
                        [r EXCEPT !.change_given = OrZero(_extract_price(line))]
                  [] OTHER -> r,
             i |-> idx + 1]

\* the record the loop returns when no line is skipped as header
RECURSIVE RunLoopNoSkip(_, _, _)
RunLoopNoSkip(r, ls, idx) ==
    IF idx >= Len(ls) THEN r
    ELSE RunLoopNoSkip(LoopBodyNoSkip(r, ls, idx).receipt, ls,
                       LoopBodyNoSkip(r, ls, idx).i)

\* C21: a line with no monetary amount never changes the record, at any
\* index and after any lines: as current line it leaves every field and the
\* items alone and the index moves by one; as the line after an item it is
\* not consumed as the discount; so the header skip of the first three
\* lines does not change the result.
C21_NoAmountNoEffect ==
    /\ [][(pc = "body" /\ ~_contains_price(lines[i + 1]))
          => /\ receipt' = receipt
             /\ i' = i + 1]_vars
    /\ [][(pc = "body" /\ i + 1 < Len(lines)
                       /\ ~_contains_price(lines[i + 2]))
          => i' = i + 1]_vars
    /\ [](pc = "done" => receipt = RunLoopNoSkip(NewReceipt, lines, 0))

\* C21 witness: past the header region, after an item has been recorded,
\* the current line has no amount but carries summary and discount keywords
C21_Witness ==
    /\ pc = "body"
    /\ i >= 3
    /\ receipt.items # <<>>
    /\ _is_item_line(lines[i])
    /\ ~_contains_price(lines[i + 1])
    /\ Contains(lower(lines[i + 1]), kw_discount)
    /\ Contains(lower(lines[i + 1]), kw_sub)

====
